---- MODULE Spec2Model ----
(***************************************************************************)
(* Model of tools/build_omr_slice.py: the row normaliser, the slice        *)
(* sampler (build_slice) and the artifact writer (write_slice) acting on a *)
(* shared filesystem.                                                      *)
(*                                                                         *)
(* Python values are tagged records: None is [t |-> "none"], an int is     *)
(* [t |-> "int", v |-> i], a str is [t |-> "str", v |-> s].  A row is a    *)
(* function from the field names it carries to such values.  A file is a   *)
(* record [present, data] whose data is the sequence of lines on disk.     *)
(***************************************************************************)
EXTENDS Integers, Sequences, FiniteSets, TLC

VARIABLES
    fs,         \* slice directory path -> directory contents
    snapshot,   \* the rows the upstream provider serves
    pc,         \* process -> position in write_slice
    loc,        \* process -> local variables of its write_slice call
    called,     \* process -> its current call has invoked the provider
    made,       \* process -> its current call's mkdir succeeded
    entry,      \* process -> what the directory looked like at call time
    completed,  \* directories for which some call has returned
    inp, outp   \* argument and result of a stand-alone build_slice run

vars == <<fs, snapshot, pc, loc, called, made, entry, completed, inp, outp>>

(***************************************************************************)
(* Bounds                                                                   *)
(***************************************************************************)
MaxRows == 2
MaxN == 3
MaxIdx == 2
MaxTime == 2

(***************************************************************************)
(* Python values                                                            *)
(***************************************************************************)
None == [t |-> "none"]
PyInt(i) == [t |-> "int", v |-> i]
PyStr(s) == [t |-> "str", v |-> s]
IsNone(x) == x.t = "none"

Digits == <<"0", "1", "2", "3", "4", "5", "6", "7", "8", "9">>

RECURSIVE StrInt(_)
StrInt(i) ==
    IF i < 10 THEN Digits[i + 1]
    ELSE StrInt(i \div 10) \o Digits[(i % 10) + 1]

\* str(v) for the values a row can carry
Str(x) == IF x.t = "int" THEN StrInt(x.v) ELSE x.v

\* str(v) kept as an optional: None stays None
StrOpt(x) == IF IsNone(x) THEN None ELSE PyStr(Str(x))

Min(a, b) == IF a < b THEN a ELSE b

(***************************************************************************)
(* Hashing and canonical encoding.  sha256 is kept symbolic: the digest of *)
(* a text is a tagged copy of that text, so equal digests mean equal       *)
(* inputs.  json.dumps(sort_keys=True) of a mapping is a tagged copy of    *)
(* the (unordered) record.                                                  *)
(***************************************************************************)
canonical_json(obj) == [json |-> obj]
sha256_str(s) == [sha256 |-> s]
sha256_bytes(b) == [sha256 |-> b]

(***************************************************************************)
(* Row normaliser                                                           *)
(***************************************************************************)
ProblemKeys == <<"problem", "question", "prompt">>
IdKeys == <<"id", "problem_id", "source_id", "uuid">>
AnswerKeys == <<"final_answer", "expected_answer", "answer", "expected_output">>
SolutionKeys == <<"generated_solution", "solution", "generated_answer">>

RECURSIVE get_first_present(_, _)
get_first_present(row, keys) ==
    IF keys = <<>> THEN None
    ELSE IF Head(keys) \in DOMAIN row THEN row[Head(keys)]
    ELSE get_first_present(row, Tail(keys))

infer_source_id(row, idx) ==
    LET v == get_first_present(row, IdKeys)
    IN  IF IsNone(v) THEN StrInt(idx) ELSE Str(v)

item_id_of(split, source_id) == "omr:" \o split \o ":" \o source_id

\* source record of an item, with the two optional tags added when present
ItemSource(row, split, source_id) ==
    LET ps == get_first_present(row, <<"problem_source">>)
        gm == get_first_present(row, <<"generation_model">>)
        base == [dataset |-> "nvidia/OpenMathReasoning", split |-> split,
                 source_id |-> source_id]
        opt == {k \in {"problem_source", "generation_model"} :
                   ~IsNone(IF k = "problem_source" THEN ps ELSE gm)}
    IN  [k \in DOMAIN base \cup opt |->
            IF k \in DOMAIN base THEN base[k]
            ELSE IF k = "problem_source" THEN Str(ps) ELSE Str(gm)]

\* one pass of the loop body of build_slice (lines 85-131); i is 0-based
NormalizeRow(row, i, split) ==
    LET source_id == infer_source_id(row, i)
        problem == get_first_present(row, ProblemKeys)
        content == [problem |-> Str(problem),
                    final_answer |-> StrOpt(get_first_present(row, AnswerKeys))]
    IN  IF IsNone(problem)
        THEN [ok |-> FALSE, err |-> "KeyError", keys |-> DOMAIN row]
        ELSE [ok |-> TRUE,
              item |-> [item_id |-> item_id_of(split, source_id),
                        source |-> ItemSource(row, split, source_id),
                        content |-> content,
                        trace |-> [steps |-> <<>>, max_steps |-> 30],
                        provenance |-> [generated_solution |->
                            StrOpt(get_first_present(row, SolutionKeys))],
                        hashes |-> [content_sha256 |->
                            sha256_str(canonical_json(content))]]]

(***************************************************************************)
(* Slice sampler                                                            *)
(***************************************************************************)
\* ds.shuffle(seed=...): the provider's seeded reordering, a permutation of
\* the source fixed by the seed (a rotation by seed, one further in the
\* buffered streaming variant)
Rotate(rows, k) ==
    IF Len(rows) = 0 THEN rows
    ELSE [i \in 1..Len(rows) |-> rows[((i - 1 + k) % Len(rows)) + 1]]

Shuffle(rows, seed, streaming) ==
    Rotate(rows, IF streaming THEN seed + 1 ELSE seed)

Dataset(rows, method, seed, streaming) ==
    IF method = "shuffle" THEN Shuffle(rows, seed, streaming) ELSE rows

\* for i, r in enumerate(ds): if i >= n: break; rows.append(r)
RECURSIVE PullStreaming(_, _, _, _)
PullStreaming(ds, n, i, rows) ==
    IF i >= Len(ds) THEN rows
    ELSE IF i >= n THEN rows
    ELSE PullStreaming(ds, n, i + 1, Append(rows, ds[i + 1]))

\* [ds[i] for i in range(min(n, len(ds)))]
PullIndexed(ds, n) ==
    IF Min(n, Len(ds)) <= 0 THEN <<>>
    ELSE [i \in 1..Min(n, Len(ds)) |-> ds[i]]

PullRows(ds, n, streaming) ==
    IF streaming THEN PullStreaming(ds, n, 0, <<>>) ELSE PullIndexed(ds, n)

\* for i, r in enumerate(rows): ... items.append(item); the first row
\* without a problem raises out of the loop
RECURSIVE NormalizeAll(_, _, _, _)
NormalizeAll(rows, i, split, items) ==
    IF i >= Len(rows) THEN [ok |-> TRUE, items |-> items]
    ELSE LET r == NormalizeRow(rows[i + 1], i, split)
         IN  IF ~r.ok THEN [ok |-> FALSE, err |-> r.err, items |-> <<>>]
             ELSE NormalizeAll(rows, i + 1, split, Append(items, r.item))

\* build_slice on a source whose rows are `source`
build_slice(source, spec) ==
    LET ds == Dataset(source, spec.method, spec.seed, spec.streaming)
        rows == PullRows(ds, spec.n, spec.streaming)
        res == NormalizeAll(rows, 0, spec.split, <<>>)
        meta == [dataset_fingerprint |->
                     IF spec.streaming THEN None ELSE PyStr("fp"),
                 num_rows_total |->
                     IF spec.streaming THEN None ELSE PyInt(Len(ds)),
                 streaming |-> spec.streaming]
    IN  IF res.ok THEN [ok |-> TRUE, items |-> res.items, meta |-> meta]
        ELSE [ok |-> FALSE, err |-> res.err, items |-> <<>>, meta |-> meta]

(***************************************************************************)
(* Slice identity and the on-disk artifact                                  *)
(***************************************************************************)
Procs == {"p1", "p2"}
Times == 1..MaxTime

SpecA == [n |-> 2, seed |-> 1, method |-> "shuffle", split |-> "cot",
          revision |-> None, streaming |-> TRUE]

\* the (out_dir, SliceSpec) pairs write_slice is called with
Calls == {<<"o1", SpecA>>, <<"o2", SpecA>>}

RowA == [problem |-> PyStr("a"), id |-> PyInt(7)]
RowB == [question |-> PyStr("b"), answer |-> PyInt(4)]
RowBad == [foo |-> PyStr("bar")]
FsSources == {<<RowA, RowB>>, <<RowA, RowBad>>}

\* the first 12 hex digits of the digest of the canonical parameter tuple
slice_hash(spec) ==
    [hex12 |-> sha256_str(canonical_json(
        [dataset |-> "nvidia/OpenMathReasoning", split |-> spec.split,
         revision |-> spec.revision, method |-> spec.method,
         seed |-> spec.seed, n |-> spec.n, streaming |-> spec.streaming]))]

slice_id(spec) ==
    [text |-> "slice_omr_" \o spec.split \o "_" \o spec.method \o "_n"
                  \o StrInt(spec.n) \o "_s" \o StrInt(spec.seed) \o "_",
     hash |-> slice_hash(spec)]

slice_dir(out_dir, spec) == <<out_dir, slice_id(spec)>>

Paths == {slice_dir(c[1], c[2]) : c \in Calls}

NoFile == [present |-> FALSE, data |-> <<>>]
EmptyFile == [present |-> TRUE, data |-> <<>>]
NoDir == [exists |-> FALSE, items |-> NoFile, manifest |-> NoFile]
EmptyDir == [exists |-> TRUE, items |-> NoFile, manifest |-> NoFile]

Both(d) == d.exists /\ d.manifest.present /\ d.items.present

\* the lines items.jsonl receives, in order
ItemLines(items) == [i \in 1..Len(items) |-> canonical_json(items[i])]

Manifest(spec, created_at_utc, fingerprint, items, items_sha256) ==
    [schema_version |-> "candidate_pool_slice@0.1",
     slice_id |-> slice_id(spec),
     created_at_utc |-> created_at_utc,
     source |-> [dataset |-> "nvidia/OpenMathReasoning", split |-> spec.split,
                 revision |-> spec.revision, method |-> spec.method,
                 seed |-> spec.seed, n |-> spec.n,
                 streaming |-> spec.streaming,
                 dataset_fingerprint |-> fingerprint],
     counts |-> [items |-> Len(items)],
     files |-> [items_jsonl |-> [path |-> "items.jsonl",
                                 sha256 |-> items_sha256]]]

\* json.dumps(manifest, indent=2) + "\n", the whole text of manifest.json
ManifestText(m) == <<[json_indent2 |-> m]>>

(***************************************************************************)
(* write_slice as a process: one action per filesystem call                 *)
(***************************************************************************)
\* the two FileExistsError a call can end with: line 166 and line 170
ConflictError == "FileExistsError: missing expected files"
MkdirError == "FileExistsError: mkdir"
FileExistsErrors == {ConflictError, MkdirError}
BuildErrors == {"KeyError", "ProviderError"}

NoLoc == [out_dir |-> "o1", spec |-> SpecA, items |-> <<>>, k |-> 0,
          created_at_utc |-> 0, fingerprint |-> "unknown",
          items_sha256 |-> sha256_bytes(<<>>), err |-> "none"]

NoEntry == [absent |-> FALSE, both |-> FALSE, quiet |-> FALSE,
            after |-> FALSE]
NoInp == [kind |-> "none"]

Returned == {"returned_existing", "returned_built"}
Resting == {"idle", "raised", "killed"} \cup Returned
Building == {"build", "now", "open_items", "write_items", "read_items",
             "open_manifest", "write_manifest"}

dir_of(p) == slice_dir(loc[p].out_dir, loc[p].spec)

InitProcs ==
    /\ pc = [p \in Procs |-> "idle"]
    /\ loc = [p \in Procs |-> NoLoc]
    /\ called = [p \in Procs |-> FALSE]
    /\ made = [p \in Procs |-> FALSE]
    /\ entry = [p \in Procs |-> NoEntry]
    /\ completed = {}

Init ==
    /\ fs = [d \in Paths |-> NoDir]
    /\ snapshot \in FsSources
    /\ InitProcs
    /\ inp = NoInp
    /\ outp = NoInp

Env == <<snapshot, inp, outp>>

\* write_slice is called: lines 143-159
Start(p) ==
    /\ pc[p] \in Resting
    /\ \E c \in Calls :
          /\ loc' = [loc EXCEPT ![p] = [NoLoc EXCEPT !.out_dir = c[1],
                                                     !.spec = c[2]]]
          /\ entry' = [entry EXCEPT ![p] =
                 [absent |-> ~fs[slice_dir(c[1], c[2])].exists,
                  both |-> Both(fs[slice_dir(c[1], c[2])]),
                  quiet |-> \A q \in Procs \ {p} :
                               ~(/\ pc[q] \in Building
                                 /\ dir_of(q) = slice_dir(c[1], c[2])),
                  after |-> slice_dir(c[1], c[2]) \in completed]]
    /\ pc' = [pc EXCEPT ![p] = "exists_dir"]
    /\ called' = [called EXCEPT ![p] = FALSE]
    /\ made' = [made EXCEPT ![p] = FALSE]
    /\ UNCHANGED <<fs, completed, Env>>

\* an exception leaves write_slice; the locals are gone
Raise(p, e) ==
    /\ pc' = [pc EXCEPT ![p] = "raised"]
    /\ loc' = [loc EXCEPT ![p] = [NoLoc EXCEPT !.out_dir = loc[p].out_dir,
                                               !.spec = loc[p].spec,
                                               !.err = e]]
    /\ UNCHANGED completed

\* return slice_dir
Return(p, how) ==
    /\ pc' = [pc EXCEPT ![p] = how]
    /\ loc' = [loc EXCEPT ![p] = [NoLoc EXCEPT !.out_dir = loc[p].out_dir,
                                               !.spec = loc[p].spec]]
    /\ completed' = completed \cup {dir_of(p)}

\* ExistsDir without the existence test: the call always goes on to mkdir
ExistsDirNoTest(p) ==
    /\ pc[p] = "exists_dir"
    /\ pc' = [pc EXCEPT ![p] = "mkdir"]
    /\ UNCHANGED <<fs, loc, called, made, entry, completed, Env>>

\* line 161: if slice_dir.exists()
ExistsDir(p) ==
    /\ pc[p] = "exists_dir"
    /\ pc' = [pc EXCEPT ![p] =
                 IF fs[dir_of(p)].exists THEN "exists_manifest" ELSE "mkdir"]
    /\ UNCHANGED <<fs, loc, called, made, entry, completed, Env>>

\* ExistsManifest with `or` for `and`: one file is enough to return
ExistsManifestOr(p) ==
    /\ pc[p] = "exists_manifest"
    /\ IF fs[dir_of(p)].manifest.present
       THEN Return(p, "returned_existing")
       ELSE /\ pc' = [pc EXCEPT ![p] = "exists_items"]
            /\ UNCHANGED <<loc, completed>>
    /\ UNCHANGED <<fs, called, made, entry, Env>>

\* line 164, left operand: manifest_path.exists(); line 166 when it is not
ExistsManifest(p) ==
    /\ pc[p] = "exists_manifest"
    /\ IF fs[dir_of(p)].manifest.present
       THEN /\ pc' = [pc EXCEPT ![p] = "exists_items"]
            /\ UNCHANGED <<loc, completed>>
       ELSE Raise(p, ConflictError)
    /\ UNCHANGED <<fs, called, made, entry, Env>>

\* line 164, right operand: items_path.exists(); then line 165 or line 166
ExistsItems(p) ==
    /\ pc[p] = "exists_items"
    /\ IF fs[dir_of(p)].items.present
       THEN Return(p, "returned_existing")
       ELSE Raise(p, ConflictError)
    /\ UNCHANGED <<fs, called, made, entry, Env>>

\* Mkdir with exist_ok=True: an existing directory is taken over
MkdirExistOk(p) ==
    /\ pc[p] = "mkdir"
    /\ fs' = [fs EXCEPT ![dir_of(p)].exists = TRUE]
    /\ made' = [made EXCEPT ![p] = TRUE]
    /\ pc' = [pc EXCEPT ![p] = "build"]
    /\ UNCHANGED <<loc, completed, called, entry, Env>>

\* line 170: slice_dir.mkdir(parents=True, exist_ok=False)
Mkdir(p) ==
    /\ pc[p] = "mkdir"
    /\ IF fs[dir_of(p)].exists
       THEN /\ Raise(p, MkdirError)
            /\ UNCHANGED <<fs, made>>
       ELSE /\ fs' = [fs EXCEPT ![dir_of(p)] = EmptyDir]
            /\ made' = [made EXCEPT ![p] = TRUE]
            /\ pc' = [pc EXCEPT ![p] = "build"]
            /\ UNCHANGED <<loc, completed>>
    /\ UNCHANGED <<called, entry, Env>>

\* lines 172-181: build_slice; load_dataset may fail (provider error)
Build(p) ==
    /\ pc[p] = "build"
    /\ called' = [called EXCEPT ![p] = TRUE]
    /\ \E up \in BOOLEAN :
          IF ~up THEN Raise(p, "ProviderError")
          ELSE LET built == build_slice(snapshot, loc[p].spec)
               IN  IF ~built.ok THEN Raise(p, built.err)
                   ELSE /\ loc' = [loc EXCEPT
                               ![p].items = built.items,
                               ![p].fingerprint =
                                   IF IsNone(built.meta.dataset_fingerprint)
                                   THEN "unknown"
                                   ELSE built.meta.dataset_fingerprint.v]
                        /\ pc' = [pc EXCEPT ![p] = "now"]
                        /\ UNCHANGED completed
    /\ UNCHANGED <<fs, made, entry, Env>>

\* line 183: created_at_utc = datetime.now(timezone.utc).isoformat()
Now(p) ==
    /\ pc[p] = "now"
    /\ \E t \in Times : loc' = [loc EXCEPT ![p].created_at_utc = t]
    /\ pc' = [pc EXCEPT ![p] = "open_items"]
    /\ UNCHANGED <<fs, called, made, entry, completed, Env>>

\* line 187: items_path.open("w") creates or truncates the file
OpenItems(p) ==
    /\ pc[p] = "open_items"
    /\ fs' = [fs EXCEPT ![dir_of(p)].items = EmptyFile]
    /\ pc' = [pc EXCEPT ![p] = "write_items"]
    /\ UNCHANGED <<loc, called, made, entry, completed, Env>>

\* ItemLine with the creation timestamp put into the item
ItemLineStamped(p) ==
    canonical_json([item |-> loc[p].items[loc[p].k + 1],
                    created_at_utc |-> loc[p].created_at_utc])

\* line 189: the text the next f.write(_canonical_json(it)) emits
ItemLine(p) == ItemLines(loc[p].items)[loc[p].k + 1]

\* lines 188-189: one f.write per item; leaving the loop closes the file
WriteItems(p) ==
    /\ pc[p] = "write_items"
    /\ IF loc[p].k < Len(loc[p].items)
       THEN /\ fs' = [fs EXCEPT ![dir_of(p)].items.data =
                          Append(@, ItemLine(p))]
            /\ loc' = [loc EXCEPT ![p].k = @ + 1]
            /\ UNCHANGED pc
       ELSE /\ pc' = [pc EXCEPT ![p] = "read_items"]
            /\ UNCHANGED <<fs, loc>>
    /\ UNCHANGED <<called, made, entry, completed, Env>>

\* ReadItems hashing the first line only instead of the whole file
ReadItemsFirstLine(p) ==
    /\ pc[p] = "read_items"
    /\ loc' = [loc EXCEPT ![p].items_sha256 =
                   sha256_bytes(SubSeq(fs[dir_of(p)].items.data, 1, 1))]
    /\ pc' = [pc EXCEPT ![p] = "open_manifest"]
    /\ UNCHANGED <<fs, called, made, entry, completed, Env>>

\* line 191: items_sha256 = _sha256_bytes(items_path.read_bytes())
ReadItems(p) ==
    /\ pc[p] = "read_items"
    /\ loc' = [loc EXCEPT ![p].items_sha256 =
                   sha256_bytes(fs[dir_of(p)].items.data)]
    /\ pc' = [pc EXCEPT ![p] = "open_manifest"]
    /\ UNCHANGED <<fs, called, made, entry, completed, Env>>

\* line 242, write_text: the file is created (empty) ...
OpenManifest(p) ==
    /\ pc[p] = "open_manifest"
    /\ fs' = [fs EXCEPT ![dir_of(p)].manifest = EmptyFile]
    /\ pc' = [pc EXCEPT ![p] = "write_manifest"]
    /\ UNCHANGED <<loc, called, made, entry, completed, Env>>

\* ... and then receives the whole text; line 244 returns
WriteManifest(p) ==
    /\ pc[p] = "write_manifest"
    /\ fs' = [fs EXCEPT ![dir_of(p)].manifest.data =
                  ManifestText(Manifest(loc[p].spec, loc[p].created_at_utc,
                                        loc[p].fingerprint, loc[p].items,
                                        loc[p].items_sha256))]
    /\ Return(p, "returned_built")
    /\ UNCHANGED <<called, made, entry, Env>>

\* the process is aborted from outside (caller-level timeout, crash)
Kill(p) ==
    /\ pc[p] \notin Resting
    /\ pc' = [pc EXCEPT ![p] = "killed"]
    /\ loc' = [loc EXCEPT ![p] = [NoLoc EXCEPT !.out_dir = loc[p].out_dir,
                                               !.spec = loc[p].spec]]
    /\ UNCHANGED <<fs, called, made, entry, completed, Env>>

Step(p) ==
    \/ Start(p)
    \/ ExistsDir(p)
    \/ ExistsManifest(p)
    \/ ExistsItems(p)
    \/ Mkdir(p)
    \/ Build(p)
    \/ Now(p)
    \/ OpenItems(p)
    \/ WriteItems(p)
    \/ ReadItems(p)
    \/ OpenManifest(p)
    \/ WriteManifest(p)
    \/ Kill(p)

Next == \E p \in Procs : Step(p)

Spec == Init /\ [][Next]_vars

(***************************************************************************)
(* Properties of write_slice                                                *)
(***************************************************************************)
\* the step is one of p's
Moved(p) == pc'[p] # pc[p] \/ loc'[p] # loc[p]

Stopped == Returned \cup {"raised"}

SpecOf(d) == (CHOOSE c \in Calls : slice_dir(c[1], c[2]) = d)[2]

\* all lines of the slice's items are in the directory's items.jsonl
ItemsComplete(d) ==
    LET built == build_slice(snapshot, SpecOf(d))
    IN  /\ built.ok
        /\ fs[d].items.present
        /\ fs[d].items.data = ItemLines(built.items)

\* C1: when write_slice is called for a slice directory that does not exist
\* and build_slice raises (schema error or provider error), the directory
\* does not exist once the error has propagated.
C1_FailedBuildLeavesNothing ==
    \A p \in Procs :
        (pc[p] = "raised" /\ loc[p].err \in BuildErrors /\ entry[p].absent)
            => ~fs[dir_of(p)].exists

\* C2: a call made after some call for the same SliceSpec and out_dir has
\* returned never invokes the provider, never changes the filesystem, never
\* raises and never goes on to mkdir: it can only return the directory.
C2_IdempotentReentry ==
    [][\A p \in Procs :
          (entry[p].after /\ pc[p] \notin Resting /\ Moved(p))
              => /\ fs' = fs
                 /\ ~called'[p]
                 /\ pc'[p] \in {"exists_manifest", "exists_items",
                                "returned_existing", "killed"}]_vars

C2_Witness ==
    \E p \in Procs : entry[p].after /\ pc[p] = "returned_existing"

\* C4: write_slice returns an existing directory only if items.jsonl and
\* manifest.json are both present and non-empty at that moment.
C4_ReturnsOnlyNonEmpty ==
    [][\A p \in Procs :
          (pc[p] = "exists_items" /\ pc'[p] = "returned_existing")
              => /\ fs[dir_of(p)].manifest.present
                 /\ fs[dir_of(p)].manifest.data # <<>>
                 /\ fs[dir_of(p)].items.present
                 /\ fs[dir_of(p)].items.data # <<>>]_vars

\* two calls for the same directory, both made while it did not exist, both
\* over, neither killed and neither stopped by a build error
Raced(p, q) ==
    /\ p # q
    /\ dir_of(p) = dir_of(q)
    /\ entry[p].absent /\ entry[q].absent
    /\ pc[p] \in Stopped /\ pc[q] \in Stopped
    /\ loc[p].err \notin BuildErrors /\ loc[q].err \notin BuildErrors

\* C5 as stated: of two such calls exactly one creates the directory and
\* writes both files, and the other fails with FileExistsError.
C5_OneBuildsOtherFails ==
    \A p, q \in Procs :
        (Raced(p, q) /\ made[p])
            => /\ pc[p] = "returned_built"
               /\ pc[q] = "raised"
               /\ loc[q].err \in FileExistsErrors

\* C5 amended: of two calls for the same directory made while it did not
\* exist, exactly one creates it and only a call that created the directory
\* writes into it; the other one writes nothing and ends with the mkdir
\* FileExistsError, with the conflict FileExistsError, or by returning the
\* existing directory.
C5_MkdirRace ==
    /\ [](\A p, q \in Procs :
            (/\ p # q
             /\ dir_of(p) = dir_of(q)
             /\ entry[p].absent /\ entry[q].absent
             /\ pc[p] \in Stopped /\ pc[q] \in Stopped)
                => /\ made[p] # made[q]
                   /\ ~made[q] => \/ pc[q] = "returned_existing"
                                  \/ /\ pc[q] = "raised"
                                     /\ loc[q].err \in FileExistsErrors)
    /\ [][\A d \in Paths :
             fs'[d] # fs[d]
                 => \E p \in Procs :
                       Moved(p) /\ dir_of(p) = d /\ made'[p]]_vars

C5_Witness ==
    \E p, q \in Procs :
        /\ Raced(p, q)
        /\ pc[p] = "returned_built"
        /\ pc[q] = "raised" /\ loc[q].err = MkdirError

\* C8: two builds of the same SliceSpec into different output directories
\* over the same upstream snapshot leave the same items.jsonl and record the
\* same slice_id, whatever their timestamps.
C8_Determinism ==
    \A d, e \in Paths :
        (/\ SpecOf(d) = SpecOf(e)
         /\ fs[d].manifest.data # <<>>
         /\ fs[e].manifest.data # <<>>)
            => /\ fs[d].items = fs[e].items
               /\ fs[d].manifest.data[1].json_indent2.slice_id
                      = fs[e].manifest.data[1].json_indent2.slice_id

C8_Witness ==
    \E d, e \in Paths :
        /\ d # e
        /\ fs[d].manifest.data # <<>>
        /\ fs[e].manifest.data # <<>>
        /\ fs[d].manifest.data[1].json_indent2.created_at_utc
               # fs[e].manifest.data[1].json_indent2.created_at_utc
        /\ fs[d].items.data # <<>>

\* the manifest's item count and file hash are those of items.jsonl
ManifestMatches(d) ==
    /\ fs[d].manifest.data # <<>>
    /\ LET m == fs[d].manifest.data[1].json_indent2
       IN  /\ m.counts.items = Len(fs[d].items.data)
           /\ m.files.items_jsonl.sha256 = sha256_bytes(fs[d].items.data)

\* C10 as stated: manifest.json exists only if items.jsonl is completely
\* written, and its counts.items and sha256 are those of items.jsonl.
C10_ManifestDescribesItems ==
    \A d \in Paths :
        fs[d].manifest.present => ItemsComplete(d) /\ ManifestMatches(d)

\* C10 amended: manifest.json exists only if items.jsonl is completely
\* written; it is empty from its creation until its text is written, and
\* once it has its text, counts.items and sha256 are those of items.jsonl
\* and nothing in the directory is written any more.
C10_ManifestLast ==
    /\ [](\A d \in Paths :
            /\ fs[d].manifest.present => ItemsComplete(d)
            /\ fs[d].manifest.data # <<>> => ManifestMatches(d))
    /\ [][\A d \in Paths :
             fs[d].manifest.data # <<>> => fs'[d] = fs[d]]_vars

C10_Witness ==
    \E d \in Paths :
        /\ ManifestMatches(d)
        /\ Len(fs[d].items.data) = 2
        /\ \E p \in Procs : pc[p] = "killed" /\ dir_of(p) # d

(***************************************************************************)
(* write_slice over an output directory that already holds something: the  *)
(* slice directory of <<"o1", SpecA>> starts absent, empty, or with one of *)
(* the two files put there by someone else.                                 *)
(***************************************************************************)
ForeignFile == [present |-> TRUE, data |-> <<[json |-> [foreign |-> TRUE]]>>]

PreDirs ==
    {NoDir, EmptyDir,
     [exists |-> TRUE, items |-> ForeignFile, manifest |-> NoFile],
     [exists |-> TRUE, items |-> NoFile, manifest |-> ForeignFile]}

InitPre ==
    /\ \E pre \in PreDirs :
          fs = [d \in Paths |->
                   IF d = slice_dir("o1", SpecA) THEN pre ELSE NoDir]
    /\ snapshot \in FsSources
    /\ InitProcs
    /\ inp = NoInp
    /\ outp = NoInp

SpecPre == InitPre /\ [][Next]_vars

\* the call was made on a directory that exists without both files while
\* no other call was building in it
FoundCorrupt(p) == ~entry[p].absent /\ ~entry[p].both /\ entry[p].quiet

\* C3: a call made on a slice directory that exists with fewer than both
\* files ends with the conflict FileExistsError, without having invoked the
\* provider, and none of its steps changes the filesystem; the directory
\* therefore stays as it is for every retry.
C3_CorruptStateConflict ==
    /\ [](\A p \in Procs :
            (FoundCorrupt(p) /\ pc[p] \in Stopped)
                => /\ pc[p] = "raised"
                   /\ loc[p].err = ConflictError
                   /\ ~called[p]
                   /\ ~Both(fs[dir_of(p)]))
    /\ [][\A p \in Procs :
             (FoundCorrupt(p) /\ pc[p] \notin Resting /\ Moved(p))
                 => fs' = fs /\ ~called'[p]]_vars

C3_Witness ==
    \E p \in Procs :
        /\ FoundCorrupt(p)
        /\ pc[p] = "raised"
        /\ loc[p].err = ConflictError
        /\ fs[dir_of(p)].manifest.present
        /\ ~fs[dir_of(p)].items.present
        /\ \E q \in Procs \ {p} : pc[q] = "raised" /\ FoundCorrupt(q)

(***************************************************************************)
(* build_slice and the row normaliser on their own: the argument is drawn  *)
(* from bounded sets and one action applies the function.                   *)
(***************************************************************************)
RowsOver(keys, vals) == UNION {[K -> vals] : K \in SUBSET keys}

RECURSIVE SeqsUpTo(_, _)
SeqsUpTo(S, k) ==
    IF k = 0 THEN {<<>>}
    ELSE LET shorter == SeqsUpTo(S, k - 1)
         IN  shorter \cup {Append(q, x) : q \in {r \in shorter : Len(r) = k - 1},
                                          x \in S}

BuildRows == RowsOver({"problem", "id"}, {None, PyInt(1), PyStr("1")})

BuildSpecs ==
    [n : 1..MaxN, seed : {0, 1}, method : {"first", "shuffle"},
     split : {"cot"}, revision : {None}, streaming : BOOLEAN]

ProbeRows ==
    RowsOver({"problem", "question", "prompt",
              "id", "problem_id", "source_id", "uuid"},
             {None, PyInt(1), PyStr("x")})

InitBuild ==
    /\ fs = [d \in Paths |-> NoDir]
    /\ snapshot = <<>>
    /\ InitProcs
    /\ outp = NoInp
    /\ \/ \E rows \in SeqsUpTo(BuildRows, MaxRows), spec \in BuildSpecs :
             inp = [kind |-> "build", rows |-> rows, spec |-> spec]
       \/ \E row \in ProbeRows, idx \in 0..MaxIdx :
             inp = [kind |-> "row", row |-> row, idx |-> idx]

\* build_slice(**spec) over a provider that serves inp.rows
RunBuild ==
    /\ inp.kind = "build"
    /\ outp = NoInp
    /\ outp' = [kind |-> "built", res |-> build_slice(inp.rows, inp.spec)]
    /\ UNCHANGED <<fs, snapshot, pc, loc, called, made, entry, completed, inp>>

\* the loop body of build_slice on one row at position inp.idx
RunRow ==
    /\ inp.kind = "row"
    /\ outp = NoInp
    /\ outp' = [kind |-> "item",
                res |-> NormalizeRow(inp.row, inp.idx, "cot"),
                source_id |-> infer_source_id(inp.row, inp.idx)]
    /\ UNCHANGED <<fs, snapshot, pc, loc, called, made, entry, completed, inp>>

NextBuild == RunBuild \/ RunRow

SpecBuild == InitBuild /\ [][NextBuild]_vars

HasAny(row, keys) == \E i \in 1..Len(keys) : keys[i] \in DOMAIN row

\* the value of the first of keys that the row carries
FirstPresent(row, keys) ==
    row[keys[CHOOSE i \in 1..Len(keys) :
                /\ keys[i] \in DOMAIN row
                /\ \A j \in 1..(i - 1) : keys[j] \notin DOMAIN row]]

\* str(x) of any value, None included
PyStrOf(x) == IF IsNone(x) THEN "None" ELSE Str(x)

\* C6: for n > 0 and a source whose rows all have a problem field,
\* build_slice ends without error with exactly min(n, available) items,
\* item i being the normalisation of the i-th row of the (shuffled) source,
\* and the manifest's counts.items is that number.
C6_ShortSourceTruncation ==
    (/\ outp.kind = "built"
     /\ \A i \in 1..Len(inp.rows) : HasAny(inp.rows[i], ProblemKeys))
        => LET sp == inp.spec
               ds == Dataset(inp.rows, sp.method, sp.seed, sp.streaming)
               items == outp.res.items
           IN  /\ outp.res.ok
               /\ Len(items) = Min(sp.n, Len(inp.rows))
               /\ \A i \in 1..Len(items) :
                     items[i] = NormalizeRow(ds[i], i - 1, sp.split).item
               /\ Manifest(sp, 1, "unknown", items, sha256_bytes(<<>>))
                      .counts.items = Min(sp.n, Len(inp.rows))

\* C7: no two items of a slice produced by build_slice have the same
\* item_id.
C7_ItemIdUnique ==
    (outp.kind = "built" /\ outp.res.ok)
        => \A i, j \in 1..Len(outp.res.items) :
              i # j => outp.res.items[i].item_id # outp.res.items[j].item_id

\* C9: the problem text is the stringified value of the first of (problem,
\* question, prompt) present in the row and the schema error is raised only
\* when none is present; the source id is the stringified value of the
\* first of (id, problem_id, source_id, uuid) present and is the positional
\* index only when none is present.
C9_FirstPresentWins ==
    outp.kind = "item"
        => /\ outp.res.ok <=> HasAny(inp.row, ProblemKeys)
           /\ outp.res.ok =>
                 outp.res.item.content.problem
                     = PyStrOf(FirstPresent(inp.row, ProblemKeys))
           /\ outp.source_id =
                 IF HasAny(inp.row, IdKeys)
                 THEN PyStrOf(FirstPresent(inp.row, IdKeys))
                 ELSE StrInt(inp.idx)

====
